---------------------------- MODULE Spec2Model ----------------------------
(***************************************************************************)
(* A model of aios/llm_core/adapter.py (class LLMAdapter): the backend     *)
(* registry built by __init__, the tool-call adapter, the structured-      *)
(* output extractor and the dispatcher address_syscall.                    *)
(*                                                                         *)
(* Python strings are modelled as sequences of one-character strings, so   *)
(* that find, slicing, replace, split/join and the two regular             *)
(* expressions are computed character by character as the code does.       *)
(* An optional value (None or a value) is a sequence of length 0 or 1.     *)
(***************************************************************************)
EXTENDS Integers, Sequences, FiniteSets, TLC

VARIABLES
    llm_configs,    \* self.llm_configs: the configured models
    llms,           \* self.llms: the resolved backend list
    registry,       \* "new", "ready", or "failed" (__init__ raised)
    env_hf_key,     \* whether HUGGING_FACE_API_KEY is in os.environ
    profile,        \* which bounded family of inputs this behaviour explores
    pc,             \* position of the call inside address_syscall
    query,          \* llm_syscall.query: messages, tools, message_return_type, llms
    context,        \* what the context manager does for this call
    prefs,          \* what the strategy's get_model_idxs returns for this call
    messages,       \* the local variable messages (rewritten in place)
    tools,          \* the local variable tools (names re-encoded in place)
    status,         \* llm_syscall's status
    model_idx,      \* the local variable model_idx
    calls,          \* the backend invocations made so far: resolved-list indexes
    raised,         \* the exception the backend call raised, if any: its str()
    res,            \* the raw text the backend returned, if any
    next_id,        \* state of generator_tool_call_id
    response,       \* the LLMResponse returned, if any
    escaped,        \* the exception that left address_syscall, if any
    tool_name,      \* pure-function input: a tool name
    encoded,        \* the tool name as pre_process_tools rewrites it
    decoded,        \* the encoded name as parse_tool_calls rewrites it
    text,           \* pure-function input: a raw model text
    embedded,       \* the JSON array embedded in text
    extracted       \* parse_json_format(text)

vars == <<llm_configs, llms, registry, env_hf_key, profile, pc, query, context,
          prefs, messages, tools, status, model_idx, calls, raised, res,
          next_id, response, escaped, tool_name, encoded, decoded, text,
          embedded, extracted>>

registryVars == <<llm_configs, llms, registry, env_hf_key>>
callVars == <<pc, query, context, prefs, messages, tools, status, model_idx,
              calls, raised, res, next_id, response, escaped>>
nameVars == <<tool_name, encoded, decoded>>
textVars == <<text, embedded, extracted>>

-----------------------------------------------------------------------------
(* Python str and list primitives, with Python's 0-based indexes.           *)

None == <<>>
Some(x) == <<x>>

Min(a, b) == IF a <= b THEN a ELSE b
Max(a, b) == IF a >= b THEN a ELSE b

\* s[a:b] for 0 <= a, 0 <= b (both clipped to len(s))
Slice(s, a, b) == SubSeq(s, Min(a, Len(s)) + 1, Min(b, Len(s)))

\* s[a:]
SliceFrom(s, a) == Slice(s, a, Len(s))

\* s[-n:] for n > 0
LastChars(s, n) == SliceFrom(s, Max(Len(s) - n, 0))

\* s.startswith(p)
StartsWith(s, p) == Len(p) <= Len(s) /\ SubSeq(s, 1, Len(p)) = p

\* s.find(sub, start): the lowest index >= start where sub occurs, else -1
Find(s, sub, start) ==
    LET hits == {i \in start .. (Len(s) - Len(sub)) : Slice(s, i, i + Len(sub)) = sub}
    IN  IF hits = {} THEN -1 ELSE CHOOSE i \in hits : \A j \in hits : i <= j

\* sub in s
Contains(s, sub) == Find(s, sub, 0) # -1

RECURSIVE Replace(_, _, _)
\* s.replace(old, new) for a non-empty old: leftmost, non-overlapping occurrences
Replace(s, old, new) ==
    LET i == Find(s, old, 0)
    IN  IF i = -1 THEN s
        ELSE Slice(s, 0, i) \o new \o Replace(SliceFrom(s, i + Len(old)), old, new)

RECURSIVE Split(_, _)
\* s.split(sep) for a non-empty sep
Split(s, sep) ==
    LET i == Find(s, sep, 0)
    IN  IF i = -1 THEN <<s>>
        ELSE <<Slice(s, 0, i)>> \o Split(SliceFrom(s, i + Len(sep)), sep)

RECURSIVE Join(_, _)
\* sep.join(parts)
Join(sep, parts) ==
    IF parts = <<>> THEN <<>>
    ELSE IF Len(parts) = 1 THEN parts[1]
    ELSE parts[1] \o sep \o Join(sep, Tail(parts))

RECURSIVE Concat(_)
\* "".join(parts)
Concat(parts) == IF parts = <<>> THEN <<>> ELSE Head(parts) \o Concat(Tail(parts))

-----------------------------------------------------------------------------
(* json.loads and json.dumps.  A parsed value is kept as its kind, its      *)
(* canonical serialisation (what json.dumps gives for it: ", " and ": "     *)
(* separators, keys in insertion order, a repeated key keeping its first    *)
(* position and its last value) and its immediate parts, each part again as *)
(* canonical text.  The grammar covers objects, arrays, strings without     *)
(* escape sequences, integers and true/false/null; the texts explored hold  *)
(* no backslash, fraction or exponent.                                      *)

JsonWs == {" ", "\t", "\n", "\r"}
JsonControl == {"\t", "\n", "\r", "\f"}
Digits == {"0", "1", "2", "3", "4", "5", "6", "7", "8", "9"}
Quote == "\""

S_true == <<"t", "r", "u", "e">>
S_false == <<"f", "a", "l", "s", "e">>
S_null == <<"n", "u", "l", "l">>
S_comma_space == <<",", " ">>
S_colon_space == <<":", " ">>
S_empty_array == <<"[", "]">>
S_empty_object == <<"{", "}">>

\* the character at 1-based position i, "" past either end
CharAt(s, i) == IF i \in 1 .. Len(s) THEN s[i] ELSE ""

\* the first position >= i whose character is not in set (Len(s) + 1 if none)
SkipOver(s, i, set) ==
    CHOOSE j \in i .. (Len(s) + 1) :
        /\ (j = Len(s) + 1 \/ s[j] \notin set)
        /\ \A k \in i .. (j - 1) : s[k] \in set

NoValue ==
    [ok |-> FALSE, next |-> 0, kind |-> "none", canon |-> <<>>, str |-> <<>>,
     keys |-> <<>>, vals |-> <<>>, elems |-> <<>>]

Value(kind, next, canon, str, keys, vals, elems) ==
    [ok |-> TRUE, next |-> next, kind |-> kind, canon |-> canon, str |-> str,
     keys |-> keys, vals |-> vals, elems |-> elems]

\* json.dumps of a str without characters that need escaping
DumpsString(str) == <<Quote>> \o str \o <<Quote>>

\* json.dumps of a list whose elements serialise to elems
DumpsArray(elems) == <<"[">> \o Join(S_comma_space, elems) \o <<"]">>

\* json.dumps of a dict with the given keys and serialised values
DumpsObject(keys, vals) ==
    <<"{">>
    \o Join(S_comma_space,
            [n \in 1 .. Len(keys) |-> DumpsString(keys[n]) \o S_colon_space \o vals[n]])
    \o <<"}">>

\* d[k] = v on a dict kept as parallel key and value sequences
DictKeys(keys, k) ==
    IF \E n \in 1 .. Len(keys) : keys[n] = k THEN keys ELSE Append(keys, k)
DictVals(keys, vals, k, v) ==
    IF \E n \in 1 .. Len(keys) : keys[n] = k
    THEN [n \in 1 .. Len(vals) |-> IF keys[n] = k THEN v ELSE vals[n]]
    ELSE Append(vals, v)

\* k in d, d[k]
HasKey(obj, k) == \E n \in 1 .. Len(obj.keys) : obj.keys[n] = k
Lookup(obj, k) == obj.vals[CHOOSE n \in 1 .. Len(obj.keys) : obj.keys[n] = k]

ParseString(s, i) ==
    LET closes == {j \in (i + 1) .. Len(s) : s[j] = Quote}
        j == CHOOSE c \in closes : \A d \in closes : c <= d
        str == SubSeq(s, i + 1, j - 1)
    IN  IF closes = {} THEN NoValue
        ELSE IF \E n \in 1 .. Len(str) : str[n] \in JsonControl THEN NoValue
        ELSE Value("string", j + 1, DumpsString(str), str, <<>>, <<>>, <<>>)

ParseNumber(s, i) ==
    LET d == IF CharAt(s, i) = "-" THEN i + 1 ELSE i
        e == IF CharAt(s, d) = "0" THEN d + 1 ELSE SkipOver(s, d, Digits)
        lexeme == SubSeq(s, i, e - 1)
    IN  IF CharAt(s, d) \notin Digits THEN NoValue
        ELSE Value("number", e, IF lexeme = <<"-", "0">> THEN <<"0">> ELSE lexeme,
                   <<>>, <<>>, <<>>, <<>>)

ParseLiteral(s, i) ==
    IF SubSeq(s, i, Min(i + 3, Len(s))) = S_true
      THEN Value("bool", i + 4, S_true, <<>>, <<>>, <<>>, <<>>)
    ELSE IF SubSeq(s, i, Min(i + 4, Len(s))) = S_false
      THEN Value("bool", i + 5, S_false, <<>>, <<>>, <<>>, <<>>)
    ELSE IF SubSeq(s, i, Min(i + 3, Len(s))) = S_null
      THEN Value("null", i + 4, S_null, <<>>, <<>>, <<>>, <<>>)
    ELSE NoValue

RECURSIVE ParseValue(_, _), ParseElems(_, _, _), ParseMembers(_, _, _, _)

ParseArray(s, i) ==
    IF CharAt(s, SkipOver(s, i + 1, JsonWs)) = "]"
    THEN Value("array", SkipOver(s, i + 1, JsonWs) + 1, S_empty_array,
               <<>>, <<>>, <<>>, <<>>)
    ELSE ParseElems(s, SkipOver(s, i + 1, JsonWs), <<>>)

ParseObject(s, i) ==
    IF CharAt(s, SkipOver(s, i + 1, JsonWs)) = "}"
    THEN Value("object", SkipOver(s, i + 1, JsonWs) + 1, S_empty_object,
               <<>>, <<>>, <<>>, <<>>)
    ELSE ParseMembers(s, SkipOver(s, i + 1, JsonWs), <<>>, <<>>)

ParseValue(s, i) ==
    IF CharAt(s, i) = Quote THEN ParseString(s, i)
    ELSE IF CharAt(s, i) = "{" THEN ParseObject(s, i)
    ELSE IF CharAt(s, i) = "[" THEN ParseArray(s, i)
    ELSE IF CharAt(s, i) = "-" \/ CharAt(s, i) \in Digits THEN ParseNumber(s, i)
    ELSE ParseLiteral(s, i)

\* after the elements elems, at position k: "," and more elements, or "]"
ElemsNext(s, elems, k) ==
    IF CharAt(s, k) = "," THEN ParseElems(s, SkipOver(s, k + 1, JsonWs), elems)
    ELSE IF CharAt(s, k) = "]"
      THEN Value("array", k + 1, DumpsArray(elems), <<>>, <<>>, <<>>, elems)
    ELSE NoValue

\* the element v has been read after the elements acc
ElemsAfter(s, acc, v) ==
    IF ~v.ok THEN NoValue
    ELSE ElemsNext(s, Append(acc, v.canon), SkipOver(s, v.next, JsonWs))

\* the elements of an array from position j on, acc being those already read
ParseElems(s, j, acc) == ElemsAfter(s, acc, ParseValue(s, j))

\* after the members keys/vals, at position m: "," and more members, or "}"
MembersNext(s, keys, vals, m) ==
    IF CharAt(s, m) = "," THEN ParseMembers(s, SkipOver(s, m + 1, JsonWs), keys, vals)
    ELSE IF CharAt(s, m) = "}"
      THEN Value("object", m + 1, DumpsObject(keys, vals), <<>>, keys, vals, <<>>)
    ELSE NoValue

\* the value v of the member named k has been read
MemberAfterValue(s, keys, vals, k, v) ==
    IF ~v.ok THEN NoValue
    ELSE MembersNext(s, DictKeys(keys, k), DictVals(keys, vals, k, v.canon),
                     SkipOver(s, v.next, JsonWs))

\* the name key of a member has been read; c is the position after it
MemberAfterKey(s, keys, vals, key, c) ==
    IF CharAt(s, c) # ":" THEN NoValue
    ELSE MemberAfterValue(s, keys, vals, key.str,
                          ParseValue(s, SkipOver(s, c + 1, JsonWs)))

MemberKey(s, keys, vals, key) ==
    IF ~key.ok THEN NoValue
    ELSE MemberAfterKey(s, keys, vals, key, SkipOver(s, key.next, JsonWs))

\* the members of an object from position j on, keys/vals being those
\* already read
ParseMembers(s, j, keys, vals) ==
    IF CharAt(s, j) # Quote THEN NoValue
    ELSE MemberKey(s, keys, vals, ParseString(s, j))

\* v is what was parsed at the start of s: nothing but whitespace may follow
WholeText(s, v) ==
    IF v.ok /\ SkipOver(s, v.next, JsonWs) = Len(s) + 1 THEN v ELSE NoValue

\* json.loads(s): the parsed value, or ok = FALSE where it raises JSONDecodeError
JsonLoads(s) == WholeText(s, ParseValue(s, SkipOver(s, 1, JsonWs)))

\* json.dumps(v) of a parsed value
JsonDumps(v) == v.canon

-----------------------------------------------------------------------------
(* parse_json_format: the two re.search calls and what follows them.        *)

\* \s of the re module (ASCII part) and what . does not match
ReWs == {" ", "\t", "\n", "\r", "\f"}
ReNewline == "\n"

NoMatch == [found |-> FALSE, group |-> <<>>]
Match(s, from, to) == [found |-> TRUE, group |-> SubSeq(s, from, to)]

\* all of s[a..b] is matched by a run of . (no newline)
DotRun(s, a, b) == \A n \in a .. b : s[n] # ReNewline

\* all of s[a..b] is matched by a run of \s
WsRun(s, a, b) == \A n \in a .. b : s[n] \in ReWs

Least(S) == CHOOSE x \in S : \A y \in S : x <= y

\* re.search(r"\[\s*\{.*?\}\s*\]", s).  At a start i: "[", then \s* takes
\* all the whitespace (the next item, "{", is no whitespace), then .*? takes
\* the fewest characters, none a newline, such that "}" follows, then
\* \s* and "]".  The search returns the match at the leftmost start.
ArrayEnds(s, i) ==
    LET j == SkipOver(s, i + 1, ReWs)
    IN  IF CharAt(s, i) # "[" \/ CharAt(s, j) # "{" THEN {}
        ELSE {k \in (j + 1) .. Len(s) :
                /\ s[k] = "}"
                /\ DotRun(s, j + 1, k - 1)
                /\ CharAt(s, SkipOver(s, k + 1, ReWs)) = "]"}

SearchArray(s) ==
    LET starts == {i \in 1 .. Len(s) : ArrayEnds(s, i) # {}}
        i == Least(starts)
    IN  IF starts = {} THEN NoMatch
        ELSE Match(s, i, SkipOver(s, Least(ArrayEnds(s, i)) + 1, ReWs))

\* re.search(r"\{\s*.*?\s*\}", s).  At a start i: "{", then what lies
\* before the closing "}" is whitespace, then characters other than newline,
\* then whitespace; the lazy .*? makes the match end at the first "}" that
\* allows this.
ObjectEnds(s, i) ==
    LET a == SkipOver(s, i + 1, ReWs)
    IN  IF CharAt(s, i) # "{" THEN {}
        ELSE {e \in a .. Len(s) :
                /\ s[e] = "}"
                /\ \E p \in a .. e : DotRun(s, a, p - 1) /\ WsRun(s, p, e - 1)}

SearchObject(s) ==
    LET starts == {i \in 1 .. Len(s) : ObjectEnds(s, i) # {}}
        i == Least(starts)
    IN  IF starts = {} THEN NoMatch
        ELSE Match(s, i, Least(ObjectEnds(s, i)))

\* lines 213-223, match_object being the result of the second search
FromObjectMatch(match_object, json_object_data) ==
    IF match_object.found /\ json_object_data.ok THEN JsonDumps(json_object_data)
    ELSE S_empty_array

SecondSearch(match_object) ==
    FromObjectMatch(match_object, JsonLoads(match_object.group))

\* lines 204-211, match_array being the result of the first search
FromArrayMatch(message, match_array, json_array_data) ==
    IF match_array.found /\ json_array_data.ok THEN JsonDumps(json_array_data)
    ELSE SecondSearch(SearchObject(message))

FirstSearch(message, match_array) ==
    FromArrayMatch(message, match_array, JsonLoads(match_array.group))

\* parse_json_format(message)
parse_json_format(message) == FirstSearch(message, SearchArray(message))

-----------------------------------------------------------------------------
(* String literals of adapter.py, the str() of the exceptions its           *)
(* statements raise, and the names Python gives to the JSON types.          *)

S_slash == <<"/">>
S_dunder == <<"_", "_">>
S_name == <<"n", "a", "m", "e">>
S_hflocal == <<"h", "f", "l", "o", "c", "a", "l">>
S_vllm == <<"v", "l", "l", "m">>
S_ollama == <<"o", "l", "l", "a", "m", "a">>
S_google == <<"g", "o", "o", "g", "l", "e">>
S_gemini == <<"g", "e", "m", "i", "n", "i">>
prefix_prompt ==
    <<"I", "n", " ", "a", "n", "d", " ", "o", "n", "l", "y", " ", "i", "n", " ", "c",
      "u", "r", "r", "e", "n", "t", " ", "s", "t", "e", "p", ",", " ", "y", "o", "u",
      " ", "n", "e", "e", "d", " ", "t", "o", " ", "c", "a", "l", "l", " ", "t", "o",
      "o", "l", "s", ".", " ", "A", "v", "a", "i", "l", "a", "b", "l", "e", " ", "t",
      "o", "o", "l", "s", " ", "a", "r", "e", ":", " ">>
suffix_prompt ==
    <<"M", "u", "s", "t", " ", "c", "a", "l", "l", " ", "f", "u", "n", "c", "t", "i",
      "o", "n", "s", " ", "t", "h", "a", "t", " ", "a", "r", "e", " ", "a", "v", "a",
      "i", "l", "a", "b", "l", "e", ".", " ", "T", "o", " ", "c", "a", "l", "l", " ",
      "a", " ", "f", "u", "n", "c", "t", "i", "o", "n", ",", " ", "r", "e", "s", "p",
      "o", "n", "d", " ", "i", "m", "m", "e", "d", "i", "a", "t", "e", "l", "y", " ",
      "a", "n", "d", " ", "o", "n", "l", "y", " ", "w", "i", "t", "h", " ", "a", " ",
      "l", "i", "s", "t", " ", "o", "f", " ", "J", "S", "O", "N", " ", "o", "b", "j",
      "e", "c", "t", " ", "o", "f", " ", "t", "h", "e", " ", "f", "o", "l", "l", "o",
      "w", "i", "n", "g", " ", "f", "o", "r", "m", "a", "t", ":", "[", "{", "\"", "n",
      "a", "m", "e", "\"", ":", "\"", "f", "u", "n", "c", "t", "i", "o", "n", "_", "n",
      "a", "m", "e", "_", "v", "a", "l", "u", "e", "\"", ",", "\"", "p", "a", "r", "a",
      "m", "e", "t", "e", "r", "s", "\"", ":", "{", "\"", "p", "a", "r", "a", "m", "e",
      "t", "e", "r", "_", "n", "a", "m", "e", "1", "\"", ":", "\"", "p", "a", "r", "a",
      "m", "e", "t", "e", "r", "_", "v", "a", "l", "u", "e", "1", "\"", ",", "\"", "p",
      "a", "r", "a", "m", "e", "t", "e", "r", "_", "n", "a", "m", "e", "2", "\"", ":",
      "\"", "p", "a", "r", "a", "m", "e", "t", "e", "r", "_", "v", "a", "l", "u", "e",
      "2", "\"", "}", "}", "]">>
S_result_of ==
    <<"T", "h", "e", " ", "r", "e", "s", "u", "l", "t", " ", "o", "f", " ", "t", "h",
      "e", " ", "e", "x", "e", "c", "u", "t", "i", "o", "n", " ", "o", "f", " ", "f",
      "u", "n", "c", "t", "i", "o", "n", "(", "i", "d", " ", ":">>
S_is == <<")", " ", "i", "s", ":", " ">>
S_dot_space == <<".", " ">>
S_api_key_provided ==
    <<"A", "P", "I", " ", "k", "e", "y", " ", "p", "r", "o", "v", "i", "d", "e", "d",
      ":">>
S_api_key_provided_sp ==
    <<"A", "P", "I", " ", "k", "e", "y", " ", "p", "r", "o", "v", "i", "d", "e", "d",
      ":", " ">>
S_dot == <<".">>
S_space == <<" ">>
S_stars == <<"*", "*", "*", "*">>
S_invalid_api_key == <<"I", "n", "v", "a", "l", "i", "d", " ", "A", "P", "I", " ", "k", "e", "y">>
S_api_key_not_found ==
    <<"A", "P", "I", " ", "k", "e", "y", " ", "n", "o", "t", " ", "f", "o", "u", "n",
      "d">>
S_error_402 ==
    <<"E", "r", "r", "o", "r", ":", " ", "I", "n", "v", "a", "l", "i", "d", " ", "o",
      "r", " ", "m", "i", "s", "s", "i", "n", "g", " ", "A", "P", "I", " ", "k", "e",
      "y", " ", "f", "o", "r", " ", "t", "h", "e", " ", "s", "e", "l", "e", "c", "t",
      "e", "d", " ", "m", "o", "d", "e", "l", ".">>
S_llm_error == <<"L", "L", "M", " ", "E", "r", "r", "o", "r", ":", " ">>
S_system_error == <<"S", "y", "s", "t", "e", "m", " ", "E", "r", "r", "o", "r", ":", " ">>
E_index ==
    <<"l", "i", "s", "t", " ", "i", "n", "d", "e", "x", " ", "o", "u", "t", " ", "o",
      "f", " ", "r", "a", "n", "g", "e">>
E_key_name == <<"'", "n", "a", "m", "e", "'">>
E_key_tool_call_id == <<"'", "t", "o", "o", "l", "_", "c", "a", "l", "l", "_", "i", "d", "'">>
E_hf_key ==
    <<"H", "U", "G", "G", "I", "N", "G", "_", "F", "A", "C", "E", "_", "A", "P", "I",
      "_", "K", "E", "Y", " ", "n", "o", "t", " ", "f", "o", "u", "n", "d", " ", "i",
      "n", " ", "c", "o", "n", "f", "i", "g", " ", "o", "r", " ", "e", "n", "v", "i",
      "r", "o", "n", "m", "e", "n", "t", " ", "v", "a", "r", "i", "a", "b", "l", "e",
      "s">>
E_no_query ==
    <<"'", "N", "o", "n", "e", "T", "y", "p", "e", "'", " ", "o", "b", "j", "e", "c",
      "t", " ", "h", "a", "s", " ", "n", "o", " ", "a", "t", "t", "r", "i", "b", "u",
      "t", "e", " ", "'", "m", "e", "s", "s", "a", "g", "e", "s", "'">>
S_item_assignment ==
    <<"'", " ", "o", "b", "j", "e", "c", "t", " ", "d", "o", "e", "s", " ", "n", "o",
      "t", " ", "s", "u", "p", "p", "o", "r", "t", " ", "i", "t", "e", "m", " ", "a",
      "s", "s", "i", "g", "n", "m", "e", "n", "t">>
S_list_indices ==
    <<"l", "i", "s", "t", " ", "i", "n", "d", "i", "c", "e", "s", " ", "m", "u", "s",
      "t", " ", "b", "e", " ", "i", "n", "t", "e", "g", "e", "r", "s", " ", "o", "r",
      " ", "s", "l", "i", "c", "e", "s", ",", " ", "n", "o", "t", " ", "s", "t", "r">>
S_no_replace ==
    <<"'", " ", "o", "b", "j", "e", "c", "t", " ", "h", "a", "s", " ", "n", "o", " ",
      "a", "t", "t", "r", "i", "b", "u", "t", "e", " ", "'", "r", "e", "p", "l", "a",
      "c", "e", "'">>
S_apos == <<"'">>
T_int == <<"i", "n", "t">>
T_str == <<"s", "t", "r">>
T_list == <<"l", "i", "s", "t">>
T_dict == <<"d", "i", "c", "t">>
T_bool == <<"b", "o", "o", "l">>
T_NoneType == <<"N", "o", "n", "e", "T", "y", "p", "e">>
K_id == <<"i", "d">>
K_parameters == <<"p", "a", "r", "a", "m", "e", "t", "e", "r", "s">>
K_function == <<"f", "u", "n", "c", "t", "i", "o", "n">>

\* type(x).__name__ of a parsed JSON value
TypeName(kind) ==
    CASE kind = "number" -> T_int
      [] kind = "string" -> T_str
      [] kind = "array" -> T_list
      [] kind = "object" -> T_dict
      [] kind = "bool" -> T_bool
      [] OTHER -> T_NoneType

\* str() of the TypeError of x["id"] = ... for an x that is no dict
E_item_assignment(kind) ==
    IF kind = "array" THEN S_list_indices
    ELSE S_apos \o TypeName(kind) \o S_item_assignment

\* str() of the AttributeError of x.replace for an x that is no str
E_no_replace(kind) == S_apos \o TypeName(kind) \o S_no_replace

\* a function's result: a value, or the str() of the exception it raises
Returns(v) == [raises |-> FALSE, value |-> v, exc |-> <<>>]
Raises(e) == [raises |-> TRUE, value |-> <<>>, exc |-> e]

-----------------------------------------------------------------------------
(* LLMAdapter.__init__, lines 96-154: the resolved backend list.            *)

\* the provider after the "google" -> "gemini" rewrite of lines 141-142
Provider(backend) == IF backend = S_google THEN S_gemini ELSE backend

\* the llm_configs[idx] entry as the loop leaves it
ConfigAfterInit(cfg) ==
    IF cfg.backend = Some(S_google)
    THEN [cfg EXCEPT !.backend = Some(S_gemini)]
    ELSE cfg

\* what one iteration of the loop appends to self.llms (nothing, or one
\* entry), or the ValueError it raises
ResolveConfig(cfg, hf_key) ==
    LET llm_name == cfg.name
        llm_backend == cfg.backend
        prefix == Provider(llm_backend[1]) \o S_slash
        is_formatted == StartsWith(llm_name, prefix)
    IN  IF llm_backend = None THEN Returns(<<>>)
        ELSE IF llm_backend[1] = S_hflocal
          THEN IF ~hf_key THEN Raises(E_hf_key)
               ELSE Returns(<<[kind |-> "HfLocalBackend", name |-> llm_name]>>)
        ELSE IF llm_backend[1] = S_vllm
          THEN Returns(<<[kind |-> "VLLMLocalBackend", name |-> llm_name]>>)
        ELSE IF llm_backend[1] = S_ollama
          THEN Returns(<<[kind |-> "OllamaBackend", name |-> llm_name]>>)
        ELSE IF ~is_formatted
          THEN Returns(<<[kind |-> "str", name |-> prefix \o llm_name]>>)
        ELSE Returns(<<>>)

RECURSIVE ResolveFrom(_, _, _, _)
\* the loop over range(len(self.llm_configs)) from idx on, with self.llms = acc
ResolveFrom(configs, idx, acc, hf_key) ==
    IF idx > Len(configs) THEN Returns(acc)
    ELSE LET r == ResolveConfig(configs[idx], hf_key)
         IN  IF r.raises THEN r
             ELSE ResolveFrom(configs, idx + 1, acc \o r.value, hf_key)

\* self.llms after __init__(llm_configs), or the exception __init__ raises
ResolvedBackends(configs, hf_key) == ResolveFrom(configs, 1, <<>>, hf_key)

\* self.llm_configs after __init__
ConfigsAfterInit(configs) == [n \in 1 .. Len(configs) |-> ConfigAfterInit(configs[n])]

-----------------------------------------------------------------------------
(* The tool-call adapter: pre_process_tools, tool_calling_input_format,     *)
(* parse_tool_calls.                                                        *)

\* lines 246-249: the name pre_process_tools stores for a tool
EncodeName(tool_name_) ==
    IF Contains(tool_name_, S_slash) THEN Join(S_dunder, Split(tool_name_, S_slash))
    ELSE tool_name_

\* pre_process_tools(tools)
pre_process_tools(tools_) ==
    [n \in 1 .. Len(tools_) |-> [tools_[n] EXCEPT !.name = EncodeName(@)]]

\* line 240: the name parse_tool_calls stores for a tool call
DecodeName(name) == Replace(name, S_dunder, S_slash)

\* json.dumps(tools): each tool is {"function": {"name": ...}}
DumpsTools(tools_) ==
    DumpsArray([n \in 1 .. Len(tools_) |->
        DumpsObject(<<K_function>>,
                    <<DumpsObject(<<S_name>>, <<DumpsString(tools_[n].name)>>)>>)])

\* json.dumps(tool_calls) of a message: each is {"id", "name", "parameters"}
DumpsToolCalls(tcs) ==
    DumpsArray([n \in 1 .. Len(tcs) |->
        DumpsObject(<<K_id, S_name, K_parameters>>,
                    <<DumpsString(tcs[n].id), DumpsString(tcs[n].name),
                      tcs[n].parameters>>)])

\* lines 184-193: what the loop body does to one message
RewriteMessage(message) ==
    IF message.tool_calls # None
      THEN Returns([message EXCEPT !.content = DumpsToolCalls(message.tool_calls[1]),
                                   !.tool_calls = None])
    ELSE IF message.role = "tool"
      THEN IF message.tool_call_id = None THEN Raises(E_key_tool_call_id)
           ELSE Returns([message EXCEPT
                    !.role = "user",
                    !.tool_call_id = None,
                    !.content = S_result_of \o message.tool_call_id[1] \o S_is
                                \o message.content \o S_dot_space])
    ELSE Returns(message)

\* tool_calling_input_format(messages, tools)
tool_calling_input_format(messages_, tools_) ==
    LET rewritten == [n \in 1 .. Len(messages_) |-> RewriteMessage(messages_[n])]
        out == [n \in 1 .. Len(messages_) |-> rewritten[n].value]
        last == Len(messages_)
        tool_prompt == DumpsTools(tools_)
    IN  IF \E n \in 1 .. Len(messages_) : rewritten[n].raises
          THEN rewritten[Least({n \in 1 .. Len(messages_) : rewritten[n].raises})]
        ELSE IF messages_ = <<>> THEN Raises(E_index)
        ELSE Returns([out EXCEPT ![last].content =
                        @ \o prefix_prompt \o tool_prompt \o suffix_prompt])

\* line 240 for a tool call that has a name: name is the parsed value of it
RenameTool(elem, id, name) ==
    IF name.kind # "string" THEN Raises(E_no_replace(name.kind))
    ELSE Returns([id |-> id, name |-> DecodeName(name.str), object |-> elem])

\* lines 236-240 for one parsed element of tool_calls
NameParsedTool(elem, id, tool_call) ==
    IF tool_call.kind # "object" THEN Raises(E_item_assignment(tool_call.kind))
    ELSE IF ~HasKey(tool_call, S_name) THEN Raises(E_key_name)
    ELSE RenameTool(elem, id, JsonLoads(Lookup(tool_call, S_name)))

\* lines 235-241 for one element of tool_calls, given the id the generator
\* hands out
NameTool(elem, id) == NameParsedTool(elem, id, JsonLoads(elem))

\* lines 232-233: the list the loop runs over
AsList(loaded) == IF loaded.kind = "object" THEN <<loaded.canon>> ELSE loaded.elems

\* a result together with the number of ids drawn from generator_tool_call_id
WithDrawn(r, n) == [raises |-> r.raises, value |-> r.value, exc |-> r.exc, drawn |-> n]

\* lines 235-242: named[n] is what the loop body does to element n; the
\* first one that raises ends the call, after its id was drawn
LoopResult(named) ==
    IF \E n \in 1 .. Len(named) : named[n].raises
    THEN WithDrawn(Raises(named[Least({n \in 1 .. Len(named) : named[n].raises})].exc),
                   Least({n \in 1 .. Len(named) : named[n].raises}))
    ELSE WithDrawn(Returns([n \in 1 .. Len(named) |-> named[n].value]), Len(named))

NameTools(tool_calls_, id0) ==
    LoopResult([n \in 1 .. Len(tool_calls_) |-> NameTool(tool_calls_[n], id0 + n - 1)])

\* parse_tool_calls(message), the generator's next id being id0
parse_tool_calls(message, id0) ==
    NameTools(AsList(JsonLoads(parse_json_format(message))), id0)

-----------------------------------------------------------------------------
(* address_syscall, lines 252-358.                                          *)

\* LLMResponse(response_message=..., tool_calls=..., error=..., finished=...,
\* status_code=...); a field the call does not pass is None
LLMResponse(response_message, tool_calls_, error, finished, status_code) ==
    [response_message |-> response_message, tool_calls |-> tool_calls_,
     error |-> error, finished |-> finished, status_code |-> status_code]

\* how the call leaves address_syscall: with a returned response, or with an
\* exception that propagates to the caller
Return(r) == [returned |-> Some(r), escaped |-> None]
Propagate(e) == [returned |-> None, escaped |-> Some(e)]

\* lines 316-324: the error message after the API key is masked
MaskApiKey(error_msg) ==
    LET key_start == Find(error_msg, S_api_key_provided, 0) + Len(S_api_key_provided_sp)
        dot == Find(error_msg, S_dot, key_start)
        key_end == IF dot = -1 THEN Find(error_msg, S_space, key_start) ELSE dot
        api_key == Slice(error_msg, key_start, key_end)
        masked_key == IF Len(api_key) > 4
                      THEN Slice(api_key, 0, 2) \o S_stars \o LastChars(api_key, 2)
                      ELSE S_stars
    IN  IF Contains(error_msg, S_api_key_provided) /\ key_end # -1
        THEN Slice(error_msg, 0, key_start) \o masked_key \o SliceFrom(error_msg, key_end)
        ELSE error_msg

\* line 326 without its second test
IsCredentialError_InvalidOnly(error_msg) == Contains(error_msg, S_invalid_api_key)

\* line 326: the test that selects the 402 response
IsCredentialError(error_msg) ==
    Contains(error_msg, S_invalid_api_key) \/ Contains(error_msg, S_api_key_not_found)

\* lines 313-338: the handler of an exception of the backend call
BackendExcept(e) ==
    LET error_msg == MaskApiKey(e)
    IN  IF IsCredentialError(error_msg)
        THEN Return(LLMResponse(Some(S_error_402), None, Some(error_msg), TRUE, Some(402)))
        ELSE Return(LLMResponse(Some(S_llm_error \o error_msg), None, Some(error_msg),
                                TRUE, Some(500)))

\* an outer handler that lets the exception through
OuterExcept_Reraise(e) == Propagate(e)

\* lines 351-358: the handler of any other exception of the try block
OuterExcept(e) ==
    Return(LLMResponse(Some(S_system_error \o e), None, Some(e), TRUE, Some(500)))

\* lines 293-295: model_idx = model_idxs[0]
FirstChoice(model_idxs_) == model_idxs_[1]

\* lines 346-349: the response when no tool call is returned
PlainResponse(ret_type, res_) ==
    IF ret_type = "json"
    THEN LLMResponse(Some(parse_json_format(res_)), None, None, TRUE, None)
    ELSE LLMResponse(Some(res_), None, None, TRUE, None)

\* lines 341-349 with the raw text also passed as response_message
AfterToolCalls_KeepsText(ret_type, res_, tool_calls_) ==
    IF tool_calls_.raises THEN tool_calls_
    ELSE IF tool_calls_.value # <<>>
      THEN WithDrawn(Returns(LLMResponse(Some(res_), Some(tool_calls_.value), None,
                                         TRUE, None)),
                     tool_calls_.drawn)
    ELSE WithDrawn(Returns(PlainResponse(ret_type, res_)), tool_calls_.drawn)

\* lines 341-349, tool_calls_ being what parse_tool_calls gave
AfterToolCalls(ret_type, res_, tool_calls_) ==
    IF tool_calls_.raises THEN tool_calls_
    ELSE IF tool_calls_.value # <<>>
      THEN WithDrawn(Returns(LLMResponse(None, Some(tool_calls_.value), None, TRUE, None)),
                     tool_calls_.drawn)
    ELSE WithDrawn(Returns(PlainResponse(ret_type, res_)), tool_calls_.drawn)

\* lines 340-349: the response for the raw text res of a successful backend
\* call, or the exception parse_tool_calls raises
PostProcess(tools_, ret_type, res_, id0) ==
    IF tools_ # <<>> THEN AfterToolCalls(ret_type, res_, parse_tool_calls(res_, id0))
    ELSE WithDrawn(Returns(PlainResponse(ret_type, res_)), 0)

\* lines 349-358: the post-processing returns its response, or the outer
\* handler returns the response for the exception it raised
Finish(r) == IF r.raises THEN OuterExcept(r.exc) ELSE Return(r.value)

\* lines 267-295: the request as adapted for the backend and the backend
\* chosen, or the exception one of these statements raises.  ctx is what the
\* context manager does and chosen what the strategy does; status is the
\* syscall's status when the statements end.
Prepare(q, configs, backends, ctx, chosen) ==
    LET selected_llms == IF q.llms # <<>> THEN q.llms ELSE configs
        restored == IF ctx.kind = "restored" /\ ctx.text # <<>>
                    THEN q.messages \o <<[role |-> "assistant", content |-> ctx.text,
                                          tool_calls |-> None, tool_call_id |-> None]>>
                    ELSE q.messages
        tools_ == IF q.tools # <<>> THEN pre_process_tools(q.tools) ELSE q.tools
        adapted == IF q.tools # <<>> THEN tool_calling_input_format(restored, tools_)
                   ELSE Returns(restored)
        model_idx_ == FirstChoice(chosen.value)
        ready(exc) == [exc |-> exc, status |-> "executing", messages |-> <<>>,
                       tools |-> <<>>, model_idxs |-> <<>>, model_idx |-> None]
    IN  IF ~q.valid THEN [ready(Some(E_no_query)) EXCEPT !.status = "pending"]
        ELSE IF ctx.kind = "raises" THEN ready(Some(ctx.text))
        ELSE IF adapted.raises THEN ready(Some(adapted.exc))
        ELSE IF chosen.raises THEN ready(Some(chosen.exc))
        ELSE IF model_idx_ >= Len(backends)
          THEN [ready(Some(E_index)) EXCEPT !.model_idxs = chosen.value]
        ELSE [exc |-> None, status |-> "executing", messages |-> adapted.value,
              tools |-> tools_, model_idxs |-> chosen.value,
              model_idx |-> Some(model_idx_)]

-----------------------------------------------------------------------------
(* The inputs explored.  A behaviour belongs to one profile, which fixes    *)
(* the family its inputs are drawn from: "routing" varies the configured    *)
(* models and the strategy's answer, "adaptation" the messages, the tools   *)
(* and the context manager, "texts" the raw text the backend returns and    *)
(* "faults" the message of the exception the backend raises.                *)

MaxConfigs == 2      \* configured models
MaxPrefs == 2        \* indexes in the strategy's preference order
MaxMsgs == 2         \* messages of a request
MaxChunks == 3       \* pieces a backend failure message is made of
MaxNameLen == 4      \* characters of a tool name
MaxCalls == 2        \* tool calls of an embedded JSON array

\* the sequences over S of between lo and hi elements
SeqsOf(S, lo, hi) == UNION {[1 .. n -> S] : n \in lo .. hi}

S_key ==
    <<"s", "k", "-", "a", "b", "c", "d", "e", "f", "g", "h", "i", "j", "k", "l", "m",
      "n", "o", "p", "q">>
S_openai == <<"o", "p", "e", "n", "a", "i">>
S_m == <<"m">>
S_openai_m == <<"o", "p", "e", "n", "a", "i", "/", "m">>
S_hi == <<"h", "i">>
S_ctx == <<"e", "a", "r", "l", "i", "e", "r">>
S_tool_ab == <<"a", "/", "b">>
S_id1 == <<"c", "1">>
S_error_word == <<"E", "r", "r", "o", "r">>
E_context ==
    <<"c", "o", "n", "t", "e", "x", "t", " ", "r", "e", "s", "t", "o", "r", "a", "t",
      "i", "o", "n", " ", "f", "a", "i", "l", "e", "d">>
E_strategy ==
    <<"n", "o", " ", "c", "a", "n", "d", "i", "d", "a", "t", "e", " ", "m", "o", "d",
      "e", "l", "s">>
S_sure == <<"S", "u", "r", "e", "!", " ">>
S_thanks == <<" ", "t", "h", "a", "n", "k", "s">>
S_prose == <<"I", "t", " ", "i", "s", " ", "s", "u", "n", "n", "y", ".">>
J_call ==
    <<"[", "{", "\"", "n", "a", "m", "e", "\"", ":", "\"", "a", "_", "_", "b", "\"", ",",
      "\"", "p", "a", "r", "a", "m", "e", "t", "e", "r", "s", "\"", ":", "{", "\"", "d",
      "\"", ":", "\"", "x", "\"", "}", "}", "]">>
J_call_object ==
    <<"{", "\"", "n", "a", "m", "e", "\"", ":", "\"", "a", "_", "_", "b", "\"", ",", "\"",
      "p", "a", "r", "a", "m", "e", "t", "e", "r", "s", "\"", ":", "{", "}", "}">>
J_two_calls ==
    <<"[", "{", "\"", "n", "a", "m", "e", "\"", ":", "\"", "a", "_", "_", "b", "\"", ",",
      "\"", "p", "a", "r", "a", "m", "e", "t", "e", "r", "s", "\"", ":", "{", "}", "}",
      ",", " ", "{", "\"", "n", "a", "m", "e", "\"", ":", "\"", "c", "\"", ",", "\"", "p",
      "a", "r", "a", "m", "e", "t", "e", "r", "s", "\"", ":", "{", "}", "}", "]">>
J_status == <<"{", "\"", "s", "t", "a", "t", "u", "s", "\"", ":", "\"", "o", "k", "\"", "}">>
J_no_name ==
    <<"[", "{", "\"", "p", "a", "r", "a", "m", "e", "t", "e", "r", "s", "\"", ":", "{",
      "}", "}", "]">>
J_number_name == <<"[", "{", "\"", "n", "a", "m", "e", "\"", ":", "1", "}", "]">>
J_null_name == <<"{", "\"", "n", "a", "m", "e", "\"", ":", "n", "u", "l", "l", "}">>
J_mixed ==
    <<"[", "{", "\"", "n", "a", "m", "e", "\"", ":", "\"", "c", "\"", "}", ",", " ", "1",
      "]">>
J_lines ==
    <<"[", "{", "\"", "n", "a", "m", "e", "\"", ":", "\"", "c", "\"", ",", "\n", "\"", "p",
      "a", "r", "a", "m", "e", "t", "e", "r", "s", "\"", ":", "{", "}", "}", "]">>
J_sentinel == <<"[", "]">>
S_see == <<"S", "e", "e", " ", "[", "1", "]", ":", " ">>
S_use == <<"u", "s", "e", " ", "[", "{", "x", "}", "]", " ">>
S_tail == <<" ", "}", "]">>
P_name_c == <<"\"", "n", "a", "m", "e", "\"", ":", "\"", "c", "\"">>
P_parameters == <<"\"", "p", "a", "r", "a", "m", "e", "t", "e", "r", "s", "\"", ":">>
V_empty == <<"{", "}">>
V_flat == <<"{", "\"", "d", "\"", ":", "\"", "x", "\"", "}">>
V_nested_object == <<"{", "\"", "d", "\"", ":", "{", "\"", "e", "\"", ":", "1", "}", "}">>
V_nested_array == <<"{", "\"", "d", "\"", ":", "[", "{", "\"", "e", "\"", ":", "1", "}", "]", "}">>
S_newline == <<"\n">>
S_comma == <<",">>

Config(name, backend) == [name |-> name, backend |-> backend]

Message(role, content, tool_calls_, tool_call_id) ==
    [role |-> role, content |-> content, tool_calls |-> tool_calls_,
     tool_call_id |-> tool_call_id]

Query(messages_, tools_, ret_type, llms_) ==
    [valid |-> TRUE, messages |-> messages_, tools |-> tools_,
     message_return_type |-> ret_type, llms |-> llms_]

\* a syscall whose query is None
NoQuery ==
    [valid |-> FALSE, messages |-> <<>>, tools |-> <<>>,
     message_return_type |-> "text", llms |-> <<>>]

ToolCallOfMessage == [id |-> S_id1, name |-> S_tool_ab, parameters |-> V_flat]
ToolAB == [name |-> S_tool_ab]
UserHi == Message("user", S_hi, None, None)

RemoteUnqualified == Config(S_m, Some(S_openai))
RemoteQualified == Config(S_openai_m, Some(S_openai))
LocalOllama == Config(S_m, Some(S_ollama))
NoBackend == Config(S_m, None)

RoutingConfigs == {RemoteUnqualified, RemoteQualified, LocalOllama, NoBackend}

RegistryConfigs ==
    RoutingConfigs
    \cup {Config(S_m, Some(S_google)), Config(S_gemini \o S_slash \o S_m, Some(S_google)),
          Config(S_m, Some(S_hflocal)), Config(S_m, Some(S_vllm))}

\* every combination of role and optional fields; tool_call_id is a field of
\* tool messages only
MessageShapes ==
    {Message(role, S_hi, tcs, None) :
        role \in {"user", "assistant"}, tcs \in {None, Some(<<ToolCallOfMessage>>)}}
    \cup {Message("tool", S_hi, tcs, id) :
            tcs \in {None, Some(<<ToolCallOfMessage>>)}, id \in {None, Some(S_id1)}}

\* the messages a well-formed caller sends, and one tool result without its id
DispatchMessages ==
    {UserHi,
     Message("assistant", S_hi, Some(<<ToolCallOfMessage>>), None),
     Message("tool", S_hi, None, Some(S_id1)),
     Message("tool", S_hi, None, None)}

JsonPayloads ==
    {<<>>, J_call, J_call_object, J_two_calls, J_status, J_no_name, J_number_name,
     J_null_name, J_mixed, J_lines, J_sentinel}

FaultChunks ==
    {S_invalid_api_key, S_api_key_not_found, S_api_key_provided, S_api_key_provided_sp,
     S_space, S_dot, S_key, S_error_word}

ConfigsOf(p) ==
    CASE p = "routing" -> SeqsOf(RoutingConfigs, 0, MaxConfigs)
      [] p = "texts" -> {<<LocalOllama>>}
      [] OTHER -> {<<RemoteUnqualified>>}

QueriesOf(p) ==
    CASE p = "routing" ->
            {NoQuery} \cup {Query(<<UserHi>>, <<>>, "text", l) : l \in {<<>>, <<LocalOllama>>}}
      [] p = "adaptation" ->
            {Query(m, t, "text", <<>>) :
                m \in SeqsOf(DispatchMessages, 0, MaxMsgs), t \in {<<>>, <<ToolAB>>}}
      [] p = "texts" ->
            {Query(<<UserHi>>, t, r, <<>>) : t \in {<<>>, <<ToolAB>>}, r \in {"text", "json"}}
      [] OTHER -> {Query(<<UserHi>>, <<>>, "text", <<>>)}

\* what the context manager does: there is none, it has nothing saved, it
\* restores a saved context, or one of its methods raises
ContextsOf(p) ==
    IF p = "adaptation"
    THEN {[kind |-> "off", text |-> <<>>], [kind |-> "nothing", text |-> <<>>],
          [kind |-> "restored", text |-> S_ctx], [kind |-> "raises", text |-> E_context]}
    ELSE {[kind |-> "off", text |-> <<>>]}

\* strategy.get_model_idxs(selected_llms): a non-empty preference order of
\* positions of the configured models, or an error for no candidates
StrategyOutcomes(p, selected_llms) ==
    IF selected_llms = <<>> THEN {Raises(E_strategy)}
    ELSE IF p = "routing"
      THEN {Returns(idxs) : idxs \in SeqsOf(0 .. (MaxConfigs - 1), 1, MaxPrefs)}
    ELSE {Returns(<<0>>)}

\* the raw text a successful backend call returns
RawTextsOf(p) ==
    IF p = "texts"
    THEN {before \o j \o after :
            before \in {<<>>, S_sure}, j \in JsonPayloads, after \in {<<>>, S_thanks}}
    ELSE {S_prose, S_sure \o J_call}

\* str(e) of the exception a failing backend call raises
FaultsOf(p) ==
    IF p = "faults" THEN {Concat(c) : c \in SeqsOf(FaultChunks, 1, MaxChunks)}
    ELSE {S_error_word, S_invalid_api_key}

Profiles == {"routing", "adaptation", "texts", "faults"}

-----------------------------------------------------------------------------
(* The dispatcher: one call of address_syscall on an adapter whose registry *)
(* __init__ has built.                                                      *)

\* the pure-function inputs are not part of a call
IdlePure ==
    /\ tool_name = <<>> /\ encoded = None /\ decoded = None
    /\ text = <<>> /\ embedded = <<>> /\ extracted = None

\* no call is in progress
IdleCall ==
    /\ profile = "none" /\ pc = "idle" /\ query = NoQuery
    /\ context = "off" /\ prefs = <<>> /\ messages = <<>> /\ tools = <<>>
    /\ status = "pending" /\ model_idx = None /\ calls = <<>> /\ raised = None
    /\ res = None /\ next_id = 0 /\ response = None /\ escaped = None

Init ==
    /\ profile \in Profiles
    /\ \E configs \in ConfigsOf(profile) :
          /\ llm_configs = ConfigsAfterInit(configs)
          /\ llms = ResolvedBackends(configs, TRUE).value
    /\ registry = "ready"
    /\ env_hf_key = TRUE
    /\ query \in QueriesOf(profile)
    /\ pc = "pending"
    /\ context = "off" /\ prefs = <<>>
    /\ messages = <<>> /\ tools = <<>>
    /\ status = "pending" /\ model_idx = None /\ calls = <<>>
    /\ raised = None /\ res = None /\ next_id = 0
    /\ response = None /\ escaped = None
    /\ IdlePure

\* the call ends: exit is Return(response) or Propagate(exception)
Leave(exit) ==
    /\ pc' = "done"
    /\ response' = exit.returned
    /\ escaped' = exit.escaped

\* lines 266-295: the statements before the backend call
Enter ==
    /\ pc = "pending"
    /\ \E ctx \in ContextsOf(profile) :
       \E chosen \in StrategyOutcomes(profile,
                        IF query.llms # <<>> THEN query.llms ELSE llm_configs) :
          LET p == Prepare(query, llm_configs, llms, ctx, chosen)
          IN  /\ context' = ctx.kind
              /\ prefs' = p.model_idxs
              /\ messages' = p.messages
              /\ tools' = p.tools
              /\ status' = p.status
              /\ model_idx' = p.model_idx
              /\ IF p.exc # None
                 THEN Leave(OuterExcept(p.exc[1]))
                 ELSE pc' = "calling" /\ UNCHANGED <<response, escaped>>
    /\ UNCHANGED <<calls, raised, res, next_id>>
    /\ UNCHANGED <<registryVars, profile, query, nameVars, textVars>>

\* lines 297-312, the call returning: completion(...) or model(...)
BackendReturns ==
    /\ pc = "calling"
    /\ calls' = Append(calls, model_idx[1])
    /\ \E raw \in RawTextsOf(profile) : res' = Some(raw)
    /\ pc' = "returned"
    /\ UNCHANGED <<context, prefs, messages, tools, status, model_idx, raised,
                   next_id, response, escaped>>
    /\ UNCHANGED <<registryVars, profile, query, nameVars, textVars>>

\* a backend call whose failure is followed by a second attempt
BackendRaises_Retry ==
    /\ pc = "calling"
    /\ calls' = Append(calls, model_idx[1])
    /\ \E e \in FaultsOf(profile) :
          /\ raised' = Some(e)
          /\ IF Len(calls) = 0
             THEN pc' = "calling" /\ UNCHANGED <<response, escaped>>
             ELSE Leave(BackendExcept(e))
    /\ UNCHANGED <<context, prefs, messages, tools, status, model_idx, res, next_id>>
    /\ UNCHANGED <<registryVars, profile, query, nameVars, textVars>>

\* lines 297-338, the call raising: the handler returns the error response
BackendRaises ==
    /\ pc = "calling"
    /\ calls' = Append(calls, model_idx[1])
    /\ \E e \in FaultsOf(profile) :
          /\ raised' = Some(e)
          /\ Leave(BackendExcept(e))
    /\ UNCHANGED <<context, prefs, messages, tools, status, model_idx, res, next_id>>
    /\ UNCHANGED <<registryVars, profile, query, nameVars, textVars>>

ExitWith(r) == Leave(Finish(r)) /\ next_id' = next_id + r.drawn

\* lines 340-358: post-processing of the raw text
Exit ==
    /\ pc = "returned"
    /\ ExitWith(PostProcess(tools, query.message_return_type, res[1], next_id))
    /\ UNCHANGED <<context, prefs, messages, tools, status, model_idx, calls,
                   raised, res>>
    /\ UNCHANGED <<registryVars, profile, query, nameVars, textVars>>

Next == Enter \/ BackendReturns \/ BackendRaises \/ Exit

Spec == Init /\ [][Next]_vars

-----------------------------------------------------------------------------
(* Properties of the dispatcher, checked under Spec.                        *)

Done == pc = "done"
Returned == response # None
Failed == Returned /\ response[1].error # None

\* C1: every call of address_syscall ends by returning a response whose
\* finished flag is true, and no exception leaves it, whatever fails on the
\* way: a call that is over has returned such a response, a call returns
\* nothing before it is over, and at no time has an exception left it.
C1_AlwaysReturnsFinished ==
    /\ Done => Returned /\ response[1].finished = TRUE
    /\ ~Done => ~Returned
    /\ escaped = None

\* C1 witness: the tool adaptation of an empty message list raised, and the
\* call returned the system error response.
C1_Witness ==
    /\ Done /\ Returned
    /\ query.valid /\ query.messages = <<>> /\ query.tools # <<>>
    /\ response[1].response_message = Some(S_system_error \o E_index)
    /\ response[1].finished = TRUE

StatusOf(r) == r[1].status_code

C3_KeyNeverEchoed ==
    Done /\ Failed =>
        /\ ~Contains(response[1].error[1], S_key)
        /\ ~Contains(response[1].response_message[1], S_key)

\* C7: when the backend call succeeds, the response carries no error and no
\* status code, whatever the raw text.
C7_TextNeverFails ==
    Done /\ res # None =>
        Returned /\ response[1].error = None /\ response[1].status_code = None

\* C8: a response without an error has exactly one of response_message and
\* tool_calls: the tool calls, non-empty, when tools were supplied and the raw
\* text parses to one or more of them (whatever the requested shape), and
\* the message in every other case.
C8_MessageOrToolCalls ==
    Done /\ Returned /\ ~Failed =>
        LET r == response[1]
            parsed == parse_tool_calls(res[1], 0)
            called == query.tools # <<>> /\ ~parsed.raises /\ parsed.value # <<>>
        IN  /\ res # None
            /\ (r.response_message = None) # (r.tool_calls = None)
            /\ called => /\ r.response_message = None
                         /\ r.tool_calls # None
                         /\ r.tool_calls[1] # <<>>
                         /\ Len(r.tool_calls[1]) = Len(parsed.value)
            /\ ~called => r.tool_calls = None /\ r.response_message # None

\* C8 witness: JSON output was requested, tools were supplied, and the
\* response carries two tool calls and no message.
C8_Witness ==
    /\ Done /\ Returned /\ ~Failed
    /\ query.message_return_type = "json"
    /\ response[1].tool_calls # None
    /\ Len(response[1].tool_calls[1]) = 2
    /\ response[1].response_message = None

\* C10 as stated: every call makes exactly one backend attempt, on the
\* backend at the first index of the preference order.
C10_ExactlyOneAttempt == Done => Len(calls) = 1 /\ calls[1] = prefs[1]

\* C10 as amended: every call makes at most one backend attempt: none when a
\* statement before the backend call raises, which ends the call with the
\* system error response, and otherwise exactly one, on the backend at the
\* first index of the preference order.  A failed attempt ends the call.
C10_AtMostOneAttempt ==
    /\ Len(calls) <= 1
    /\ calls # <<>> => prefs # <<>> /\ calls[1] = prefs[1]
    /\ pc \in {"returned", "done"} /\ calls = <<>> =>
          /\ Done /\ raised = None /\ res = None
          /\ StatusOf(response) = Some(500)
          /\ StartsWith(response[1].response_message[1], S_system_error)
    /\ (raised # None \/ res # None) => Len(calls) = 1
    /\ raised # None => Done /\ res = None

\* C10 witness: the strategy gave two different indexes, the backend at the
\* first was called once and failed, and the call is over.
C10_Witness ==
    /\ Done /\ raised # None
    /\ Len(prefs) = 2 /\ prefs[1] # prefs[2]
    /\ calls = <<prefs[1]>>

-----------------------------------------------------------------------------
(* Registry construction: LLMAdapter(llm_configs).                          *)

InitRegistry ==
    /\ llm_configs \in SeqsOf(RegistryConfigs, 0, MaxConfigs)
    /\ env_hf_key \in BOOLEAN
    /\ llms = <<>>
    /\ registry = "new"
    /\ IdleCall /\ IdlePure

\* the configs with the ones before position stop as the loop leaves them
ConfigsUpTo(configs, stop) ==
    [n \in 1 .. Len(configs) |->
        IF n < stop THEN ConfigAfterInit(configs[n]) ELSE configs[n]]

\* the first position at which the loop raises
RaisesAt(configs, hf_key) ==
    Least({n \in 1 .. Len(configs) : ResolveConfig(configs[n], hf_key).raises})

ConstructWith(r) ==
    IF r.raises
    THEN /\ registry' = "failed"
         /\ llm_configs' = ConfigsUpTo(llm_configs, RaisesAt(llm_configs, env_hf_key))
         /\ llms' = llms
    ELSE /\ registry' = "ready"
         /\ llm_configs' = ConfigsAfterInit(llm_configs)
         /\ llms' = r.value

\* __init__, lines 59-160
Construct ==
    /\ registry = "new"
    /\ ConstructWith(ResolvedBackends(llm_configs, env_hf_key))
    /\ UNCHANGED <<env_hf_key, profile, callVars, nameVars, textVars>>

NextRegistry == Construct

SpecRegistry == InitRegistry /\ [][NextRegistry]_vars

IsConfigured(cfg) == cfg.backend # None

\* C4: after construction the resolved list holds one entry for every
\* configured model whose backend is not none, in configuration order, and
\* the entry of a remote model is "<provider>/<name>" with the prefix once,
\* whether or not the configured name already carries it.
C4_OneEntryPerConfig ==
    registry = "ready" =>
        LET configured == SelectSeq(llm_configs, IsConfigured)
            prefix(c) == Provider(c.backend[1]) \o S_slash
            qualified(c) == IF StartsWith(c.name, prefix(c)) THEN c.name
                            ELSE prefix(c) \o c.name
        IN  /\ Len(llms) = Len(configured)
            /\ \A n \in 1 .. Len(configured) :
                  configured[n].backend[1] \notin {S_hflocal, S_vllm, S_ollama} =>
                      llms[n] = [kind |-> "str", name |-> qualified(configured[n])]

-----------------------------------------------------------------------------
(* The tool-name round trip: pre_process_tools, then parse_tool_calls on a  *)
(* model text that calls the tool by the name it was shown.                 *)

NameChars == {"a", "_", "/"}

S_echo_open == <<"[", "{", "\"", "n", "a", "m", "e", "\"", ":", "\"">>
S_echo_close ==
    <<"\"", ",", "\"", "p", "a", "r", "a", "m", "e", "t", "e", "r", "s", "\"", ":", "{",
      "}", "}", "]">>

\* the text of a model that calls the one tool it was shown
ModelEcho(name) == S_echo_open \o name \o S_echo_close

InitToolNames ==
    /\ tool_name \in SeqsOf(NameChars, 1, MaxNameLen)
    /\ encoded = None /\ decoded = None
    /\ text = <<>> /\ embedded = <<>> /\ extracted = None
    /\ llm_configs = <<>> /\ llms = <<>> /\ registry = "ready" /\ env_hf_key = TRUE
    /\ IdleCall

\* pre_process_tools on the list of the one tool
Encode ==
    /\ encoded = None
    /\ encoded' = Some(pre_process_tools(<<[name |-> tool_name]>>)[1].name)
    /\ UNCHANGED <<tool_name, decoded, registryVars, profile, callVars, textVars>>

\* parse_tool_calls on the model's text
Decode ==
    /\ encoded # None /\ decoded = None
    /\ decoded' = Some(parse_tool_calls(ModelEcho(encoded[1]), 0).value[1].name)
    /\ UNCHANGED <<tool_name, encoded, registryVars, profile, callVars, textVars>>

NextToolNames == Encode \/ Decode

SpecToolNames == InitToolNames /\ [][NextToolNames]_vars

\* C5: a tool name that contains "/" comes back unchanged from encoding
\* and then decoding.
C5_RoundTrip ==
    decoded # None /\ Contains(tool_name, S_slash) => decoded[1] = tool_name

-----------------------------------------------------------------------------
(* The extractor on a JSON array of tool calls inside prose.                *)

\* one tool-call-shaped object, its two members on one line or on two
CallTexts ==
    {<<"{">> \o P_name_c \o S_comma \o nl \o P_parameters \o v \o <<"}">> :
        nl \in {<<>>, S_newline},
        v \in {V_empty, V_flat, V_nested_object, V_nested_array}}

\* a JSON array of such objects, the brackets on the objects' lines or on
\* lines of their own
ArrayTexts ==
    {<<"[">> \o nl \o Join(S_comma_space, objs) \o nl \o <<"]">> :
        nl \in {<<>>, S_newline}, objs \in SeqsOf(CallTexts, 1, MaxCalls)}

ProseBefore == {<<>>, S_sure, S_see, S_use}
ProseAfter == {<<>>, S_thanks, S_tail}

InitExtract ==
    /\ embedded \in ArrayTexts
    /\ \E before \in ProseBefore, after \in ProseAfter :
          text = before \o embedded \o after
    /\ extracted = None
    /\ tool_name = <<>> /\ encoded = None /\ decoded = None
    /\ llm_configs = <<>> /\ llms = <<>> /\ registry = "ready" /\ env_hf_key = TRUE
    /\ IdleCall

\* parse_json_format(text)
Extract ==
    /\ extracted = None
    /\ extracted' = Some(parse_json_format(text))
    /\ UNCHANGED <<text, embedded, registryVars, profile, callVars, nameVars>>

NextExtract == Extract

SpecExtract == InitExtract /\ [][NextExtract]_vars

\* what s parses to, as canonical text (<<>> if s is no JSON)
Parsed(s) == JsonLoads(s).canon

\* C6: from a text that embeds a valid JSON array of tool calls in prose,
\* parse_json_format returns a JSON text that parses to that array.
C6_RecoversArray ==
    extracted # None =>
        /\ JsonLoads(embedded).kind = "array"
        /\ Parsed(extracted[1]) = Parsed(embedded)

-----------------------------------------------------------------------------
(* The request-side rewrite on its own: tool_calling_input_format.          *)

InitRewrite ==
    /\ messages \in SeqsOf(MessageShapes, 1, MaxMsgs)
    /\ tools = <<ToolAB>>
    /\ pc = "adapting"
    /\ profile = "none" /\ query = NoQuery /\ context = "off" /\ prefs = <<>>
    /\ status = "pending" /\ model_idx = None /\ calls = <<>> /\ raised = None
    /\ res = None /\ next_id = 0 /\ response = None /\ escaped = None
    /\ llm_configs = <<>> /\ llms = <<>> /\ registry = "ready" /\ env_hf_key = TRUE
    /\ IdlePure

RewriteWith(r) ==
    IF r.raises
    THEN pc' = "raised" /\ escaped' = Some(r.exc) /\ messages' = messages
    ELSE pc' = "adapted" /\ escaped' = None /\ messages' = r.value

\* tool_calling_input_format(messages, tools)
Rewrite ==
    /\ pc = "adapting"
    /\ RewriteWith(tool_calling_input_format(messages, tools))
    /\ UNCHANGED <<profile, query, context, prefs, tools, status, model_idx, calls,
                   raised, res, next_id, response>>
    /\ UNCHANGED <<registryVars, nameVars, textVars>>

NextRewrite == Rewrite

SpecRewrite == InitRewrite /\ [][NextRewrite]_vars

\* C9: after the rewrite of a non-empty message list no message carries
\* tool_calls, has role tool or carries tool_call_id.
C9_NoToolFieldsLeft ==
    pc = "adapted" =>
        \A n \in 1 .. Len(messages) :
            /\ messages[n].tool_calls = None
            /\ messages[n].role # "tool"
            /\ messages[n].tool_call_id = None

=============================================================================
